---- MODULE Spec2Model ----
(***************************************************************************)
(* Model of the real-time chat core of src/src/screens/ChatScreen.tsx:     *)
(* the React state of the ChatScreen component, its refs, the asynchronous *)
(* operations it has in flight (each with the values its closure captured  *)
(* at the render that started it), and the backend it talks to.            *)
(***************************************************************************)
EXTENDS Integers, Sequences, FiniteSets, TLC

\* ------------------------------------------------------------------ bounds
MaxClock == 1       \* between two sends Date.now() advances at most MaxClock times
MaxSrvMsgs == 2     \* messages the backend persists (ids 1..MaxSrvMsgs)
MaxSends == 2       \* persistence requests in flight at once
MaxSelects == 2     \* handleUserSelect calls in flight at once (handler level)
MaxWork == 4        \* contacts selected, messages sent and inbound events
MaxLogLen == 3      \* length of the logs given to groupMessagesByDate alone

\* ------------------------------------------------------------- environment
NULL == "null"
Me == "me"
Contacts == {"p1", "p2"}
Roles == {"customer", "worker"}
\* GET /users/me : the profile the backend holds for the local user
ServerProfile == [_id |-> Me, role |-> "customer"]
DayLen == 8         \* clock values per calendar day

\* GET /chat/rooms?customerId=&workerId= : the backend's room of a pair
ServerRoom(customerId, workerId) ==
  IF "p1" \in {customerId, workerId} THEN "r1" ELSE "r2"

Rooms == {"r1", "r2"}

\* the backend's contact list (approved-workers / my-chats), raw payload
ServerContacts ==
  << [_id |-> "p1", isOnline |-> FALSE, unreadCount |-> 1],
     [_id |-> "p2", isOnline |-> TRUE,  unreadCount |-> 0] >>

\* texts the user can have in the input field
InputTexts == { <<>>, <<"h", " ">> }

\* readBy lists a backend payload can carry
ReadBys ==
  { <<>>,
    << [userId |-> Me, readAt |-> 0] >>,
    << [userId |-> "p1", readAt |-> 0] >> }

\* ---------------------------------------------------------------- helpers
Range(s) == { s[i] : i \in DOMAIN s }

Min(S) == CHOOSE x \in S : \A y \in S : x <= y

RECURSIVE TrimLeft(_)
TrimLeft(t) ==
  IF t # <<>> /\ Head(t) = " " THEN TrimLeft(Tail(t)) ELSE t

RECURSIVE TrimRight(_)
TrimRight(t) ==
  IF t # <<>> /\ t[Len(t)] = " " THEN TrimRight(SubSeq(t, 1, Len(t) - 1)) ELSE t

\* String.prototype.trim
Trim(t) == TrimRight(TrimLeft(t))

\* message ids: server-assigned, `temp-${Date.now()}`, `temp-img-${Date.now()}`
SrvId(n) == [k |-> "srv", n |-> n]
TempId(t) == [k |-> "temp-", n |-> t]
TempImgId(t) == [k |-> "temp-img-", n |-> t]
\* _id.startsWith('temp-')
StartsWithTemp(id) == id.k \in {"temp-", "temp-img-"}

\* --------------------------------------------------- groupMessagesByDate
\* Date.prototype.toDateString: the local calendar day of a timestamp
DateKey(t) == t \div DayLen
\* new Date(dateKey).getTime(): local midnight of that day
KeyTime(k) == k * DayLen

\* keys of `groups` in insertion order (Object.entries order)
RECURSIVE KeysInOrder(_, _)
KeysInOrder(msgs, seen) ==
  IF msgs = <<>> THEN <<>>
  ELSE LET k == DateKey(Head(msgs).createdAt) IN
       IF k \in seen THEN KeysInOrder(Tail(msgs), seen)
       ELSE <<k>> \o KeysInOrder(Tail(msgs), seen \cup {k})

\* an insertion that puts x before the pairs of its own time
RECURSIVE InsertBeforeTies(_, _)
InsertBeforeTies(x, s) ==
  IF s = <<>> THEN <<x>>
  ELSE IF x[1] <= Head(s)[1] THEN <<x>> \o s
       ELSE <<Head(s)>> \o InsertBeforeTies(x, Tail(s))

\* stable insertion of the pair x = <<time, value>> into a sequence of pairs
\* sorted by time: x goes after every pair whose time is not greater
RECURSIVE InsertByTime(_, _)
InsertByTime(x, s) ==
  IF s = <<>> THEN <<x>>
  ELSE IF x[1] < Head(s)[1] THEN <<x>> \o s
       ELSE <<Head(s)>> \o InsertByTime(x, Tail(s))

\* Array.prototype.sort with the comparator time(a) - time(b) (stable)
RECURSIVE SortByTime(_)
SortByTime(s) ==
  IF s = <<>> THEN <<>>
  ELSE InsertByTime(s[Len(s)], SortByTime(SubSeq(s, 1, Len(s) - 1)))

\* msgs.sort((a, b) => time(a.createdAt) - time(b.createdAt))
SortMessages(msgs) ==
  LET sorted == SortByTime([i \in DOMAIN msgs |-> <<msgs[i].createdAt, msgs[i]>>])
  IN [i \in DOMAIN sorted |-> sorted[i][2]]

\* .sort((a, b) => time(a.date) - time(b.date))
SortGroups(gs) ==
  LET sorted == SortByTime([i \in DOMAIN gs |-> <<KeyTime(gs[i].date), gs[i]>>])
  IN [i \in DOMAIN sorted |-> sorted[i][2]]

DateLabel(k, today) ==
  IF k = today THEN <<"Today">>
  ELSE IF k = today - 1 THEN <<"Yesterday">>
  ELSE <<"Full", k>>

\* a grouping whose sort is on the array it was given
GroupArraysSortInput(messages_) ==
  LET keys == KeysInOrder(messages_, {})
      sorted == SortMessages(messages_)
  IN [input |-> sorted,
      groups |-> [k \in Range(keys) |->
                   SelectSeq(sorted, LAMBDA m : DateKey(m.createdAt) = k)]]

\* The arrays groupMessagesByDate works on: `input` is the array it is given,
\* groups[k] the array it builds for the day k (lines 62-72). The sort of line
\* 97 is in place, on the array `msgs` of the entry, which is groups[k].
GroupArrays(messages_) ==
  LET keys == KeysInOrder(messages_, {})
      built == [input |-> messages_,
                groups |-> [k \in Range(keys) |->
                   SelectSeq(messages_, LAMBDA m : DateKey(m.createdAt) = k)]]
  IN [built EXCEPT !.groups = [k \in Range(keys) |-> SortMessages(built.groups[k])]]

\* one call: the value it returns and the array it was given, after the call
groupMessagesByDateRun(messages_, today) ==
  LET keys == KeysInOrder(messages_, {})
      arrays == GroupArrays(messages_)
      entry(k) == [date |-> k,
                   dateLabel |-> DateLabel(k, today),
                   messages |-> arrays.groups[k]]
  IN [result |-> SortGroups([i \in DOMAIN keys |-> entry(keys[i])]),
      input |-> arrays.input]

groupMessagesByDate(messages_, today) ==
  groupMessagesByDateRun(messages_, today).result

\* -------------------------------------------------------------------- state
VARIABLES
  now,             \* Date.now()
  token,           \* AsyncStorage holds an auth token
  cache,           \* AsyncStorage: the cached userId and role
  profileReq,      \* loadUserProfile is in flight
  userId, role,    \* useState: identity
  step, users, roomId, messages, groupedMessages,
  loading, inputText, sending, activeUserId, activeUser,
  socketRef,       \* useRef: sid of the room socket, 0 for null
  sockets,         \* connected room sockets, each with its handlers' closure
  usersReq,        \* fetchUsers is in flight (its captured role, or NULL)
  selects,         \* handleUserSelect calls in flight
  sends,           \* sendMessage / handleImagePick requests in flight
  timers,          \* setTimeout(() => markMessagesAsRead(room), 500) pending
  markReads,       \* mark-read requests in flight
  serverLog,       \* backend: the messages persisted per room
  nextId,          \* backend: next message id
  emits,           \* socket emits of the last step
  alert,           \* Alert.alert of the last step
  work,            \* contacts selected, messages sent, events delivered so far
  mounted,         \* the component is mounted
  presence,        \* initializeGlobalSocket: "none", "token" (awaiting), "done"
  cleanupAsked,    \* the [userId] effect's cleanup waits for the pending start
  globalSocket,    \* the presence socket globalSocketRef holds
  onlineUsers,     \* useState: ids announced online
  last             \* what the last step resolved (for stating the claims)

vars == << now, token, cache, profileReq, userId, role, step, users, roomId,
           messages, groupedMessages, loading, inputText, sending,
           activeUserId, activeUser, socketRef, sockets, usersReq, selects,
           sends, timers, markReads, serverLog, nextId, emits, alert, work, last,
           mounted, presence, cleanupAsked, globalSocket, onlineUsers >>

identityVars == << token, cache, profileReq, userId, role >>
roomVars == << step, roomId, activeUserId, activeUser, socketRef, sockets >>
storeVars == << messages, groupedMessages >>
serverVars == << serverLog, nextId >>
presenceVars == << mounted, presence, cleanupAsked, globalSocket, onlineUsers >>

NoLast == [op |-> "none"]

\* globalSocketRef.current is null: no presence socket has been made
NoGlobalSocket ==
  [made |-> FALSE, open |-> FALSE, connected |-> FALSE, hb |-> FALSE,
   offline |-> FALSE]

\* the message the backend has before the session starts: one from p1 in r1
InitialServerLog ==
  [r \in Rooms |->
     IF r = "r1"
     THEN << [_id |-> SrvId(0), senderId |-> "p1", createdAt |-> 0,
              content |-> <<"h">>, images |-> <<>>, readBy |-> <<>>] >>
     ELSE <<>>]

\* the component after its first render, nothing started yet
InitComponent ==
  /\ profileReq = TRUE
  /\ userId = NULL /\ role = NULL
  /\ step = "selectUser" /\ users = <<>> /\ roomId = NULL
  /\ groupedMessages = <<>>
  /\ loading = FALSE /\ inputText = <<>> /\ sending = FALSE
  /\ activeUserId = NULL /\ activeUser = NULL
  /\ socketRef = 0 /\ sockets = {}
  /\ usersReq = NULL /\ selects = {} /\ sends = {}
  /\ timers = {} /\ markReads = {}
  /\ serverLog = InitialServerLog /\ nextId = 1 /\ work = 0
  /\ emits = <<>> /\ alert = NULL /\ last = NoLast
  /\ mounted = TRUE /\ presence = "none" /\ cleanupAsked = FALSE
  /\ globalSocket = NoGlobalSocket /\ onlineUsers = {}

Init ==
  /\ now = DayLen
  /\ token \in BOOLEAN
  /\ cache \in [userId : {NULL, Me}, role : {NULL, ServerProfile.role}]
  /\ messages = <<>>
  /\ InitComponent

\* the useEffect([messages]) of the component: runs when the setter produced
\* a new array, and recomputes the groups only for a non-empty log
MessagesEffect(changed, msgs, grouped, t) ==
  IF changed /\ Len(msgs) > 0
  THEN groupMessagesByDate(msgs, DateKey(t))
  ELSE grouped

\* what the render shows: the spinner, the contact list or the chat
Visible(scr) == userId # NULL /\ role # NULL /\ ~loading /\ step = scr

\* a step that costs c of the run's budget of user operations and events
Budget(c) ==
  /\ work + c <= MaxWork
  /\ work' = work + c

\* Date.now() at a read: the clock has not gone back since the last read
ClockReadings == {now} \cup { t \in {now + 1} : t <= DayLen + MaxClock }

\* the backend's clock when it stamps a message
ServerNow == DayLen

\* ------------------------------------------------------- loadUserProfile
\* the [role] effect: fetchUsers starts when a role has been set
FetchUsersStart(r) ==
  /\ loading' = (IF r # NULL THEN TRUE ELSE loading)
  /\ usersReq' = (IF r # NULL THEN r ELSE usersReq)

LoadProfileNoToken ==
  /\ Budget(0)
  /\ UNCHANGED presenceVars
  /\ profileReq /\ ~token
  /\ profileReq' = FALSE
  /\ alert' = "No authentication token found"
  /\ emits' = <<>> /\ last' = [op |-> "profileNoToken"]
  /\ UNCHANGED << now, token, cache, userId, role, roomVars, storeVars,
                  serverVars, users, loading, inputText, sending, usersReq,
                  selects, sends, timers, markReads >>

\* the [userId] effect (lines 202-267): with a userId, initializeGlobalSocket
\* starts and waits for the token
PresenceStart(uid) == IF uid # NULL THEN "token" ELSE presence

\* GET /users/me answered. The setters and the effects they trigger do
\* nothing once the component is unmounted; the cache is written either way.
LoadProfileOk ==
  /\ Budget(0)
  /\ profileReq /\ token
  /\ profileReq' = FALSE
  /\ cache' = [userId |-> ServerProfile._id, role |-> ServerProfile.role]
  /\ IF mounted
     THEN /\ userId' = ServerProfile._id /\ role' = ServerProfile.role
          /\ FetchUsersStart(ServerProfile.role)
          /\ presence' = PresenceStart(ServerProfile._id)
     ELSE UNCHANGED << userId, role, loading, usersReq, presence >>
  /\ emits' = <<>> /\ alert' = NULL /\ last' = [op |-> "profileOk"]
  /\ UNCHANGED << now, token, roomVars, storeVars, serverVars, users,
                  inputText, sending, selects, sends, timers, markReads,
                  mounted, cleanupAsked, globalSocket, onlineUsers >>

\* a fallback content with a cached userId alone
CacheHasUser(c) == c.userId # NULL

\* storedUserId && storedRole
CacheComplete(c) == c.userId # NULL /\ c.role # NULL

\* GET /users/me failed: the catch falls back to the cached pair
LoadProfileFail ==
  /\ Budget(0)
  /\ profileReq /\ token
  /\ profileReq' = FALSE
  /\ IF CacheComplete(cache)
     THEN /\ alert' = NULL
          /\ IF mounted
             THEN /\ userId' = cache.userId /\ role' = cache.role
                  /\ FetchUsersStart(cache.role)
                  /\ presence' = PresenceStart(cache.userId)
             ELSE UNCHANGED << userId, role, loading, usersReq, presence >>
     ELSE /\ alert' = "Failed to load user profile. Please login again."
          /\ UNCHANGED << userId, role, loading, usersReq, presence >>
  /\ emits' = <<>>
  /\ last' = [op |-> "profileFail"]
  /\ UNCHANGED << now, token, cache, roomVars, storeVars, serverVars, users,
                  inputText, sending, selects, sends, timers, markReads,
                  mounted, cleanupAsked, globalSocket, onlineUsers >>

\* ------------------------------------------------------------ fetchUsers
NormalizeUser(w) ==
  [_id |-> w._id, isOnline |-> w.isOnline, unreadCount |-> w.unreadCount]

\* the contact list fetchUsers builds from the backend's answer
LoadedContacts ==
  [i \in DOMAIN ServerContacts |-> NormalizeUser(ServerContacts[i])]

FetchUsersOk ==
  /\ Budget(0)
  /\ usersReq # NULL
  /\ users' = (IF mounted /\ usersReq \in {"customer", "worker"}
               THEN LoadedContacts
               ELSE users)
  /\ loading' = (IF mounted THEN FALSE ELSE loading)
  /\ usersReq' = NULL
  /\ emits' = <<>> /\ alert' = NULL /\ last' = NoLast
  /\ UNCHANGED << now, identityVars, roomVars, storeVars, serverVars,
                  inputText, sending, selects, sends, timers, markReads,
                  presenceVars >>

FetchUsersFail ==
  /\ Budget(0)
  /\ usersReq # NULL
  /\ loading' = (IF mounted THEN FALSE ELSE loading)
  /\ usersReq' = NULL
  /\ alert' = "Failed to load contacts"
  /\ emits' = <<>> /\ last' = NoLast
  /\ UNCHANGED << now, identityVars, roomVars, storeVars, serverVars, users,
                  inputText, sending, selects, sends, timers, markReads,
                  presenceVars >>

\* a disconnect that closes nothing
DisconnectNothing(ref, socks) == socks

\* socketRef.current.disconnect() for the socket a ref holds
Disconnect(ref, socks) == { s \in socks : s.sid # ref }

\* --------------------------------------------------------------- presence
\* ids a presence event can carry: the contacts and a stranger
PresenceIds == Contacts \cup {"p3"}

\* globalSocket.emit(ev, userId)
GlobalEmit(ev) == [sid |-> "global", ev |-> ev, arg |-> userId]

\* io(API_BASE_URL, ... type: 'presence') and the setInterval of line 249
FreshGlobalSocket ==
  [made |-> TRUE, open |-> TRUE, connected |-> FALSE, hb |-> TRUE,
   offline |-> FALSE]

\* the function initializeGlobalSocket returns (lines 252-256)
PresenceCleanup(sock) ==
  [sock EXCEPT !.hb = FALSE, !.offline = TRUE, !.open = FALSE,
               !.connected = FALSE]

\* the unmount cleanup's part for the presence socket (lines 715-718)
UnmountClose(sock) ==
  [sock EXCEPT !.offline = TRUE, !.open = FALSE, !.connected = FALSE]

\* a cleanup that forgets a start that has not returned yet
ThenIfReturned(p) == p = "done"

\* cleanup?.then(...) of line 263: the callback is kept for a start that is
\* still pending as well as for one that has returned
ThenRegistered(p) == p \in {"token", "done"}

\* initializeGlobalSocket after its await (lines 204-257); the callback the
\* effect's cleanup left on the promise runs as soon as it returns
PresenceTokenRead ==
  /\ Budget(0)
  /\ presence = "token"
  /\ presence' = "done"
  /\ IF ~token
     THEN UNCHANGED globalSocket /\ emits' = <<>>
     ELSE IF cleanupAsked
          THEN /\ globalSocket' = PresenceCleanup(FreshGlobalSocket)
               /\ emits' = << GlobalEmit("userOffline") >>
          ELSE /\ globalSocket' = FreshGlobalSocket
               /\ emits' = <<>>
  /\ cleanupAsked' = FALSE
  /\ alert' = NULL
  /\ last' = [op |-> "presenceStarted", late |-> cleanupAsked]
  /\ UNCHANGED << now, identityVars, roomVars, storeVars, serverVars, users,
                  loading, inputText, sending, usersReq, selects, sends,
                  timers, markReads, mounted, onlineUsers >>

\* globalSocket.on('connect')
PresenceConnect ==
  /\ Budget(0)
  /\ globalSocket.made /\ globalSocket.open /\ ~globalSocket.connected
  /\ globalSocket' = [globalSocket EXCEPT !.connected = TRUE]
  /\ emits' = << GlobalEmit("userOnline") >>
  /\ alert' = NULL /\ last' = NoLast
  /\ UNCHANGED << now, identityVars, roomVars, storeVars, serverVars, users,
                  loading, inputText, sending, usersReq, selects, sends,
                  timers, markReads, mounted, presence, cleanupAsked,
                  onlineUsers >>

\* the setInterval callback of lines 249-251
Heartbeat ==
  /\ Budget(1)
  /\ globalSocket.made /\ globalSocket.hb
  /\ emits' = << GlobalEmit("updateActivity") >>
  /\ alert' = NULL /\ last' = [op |-> "heartbeat"]
  /\ UNCHANGED << now, identityVars, roomVars, storeVars, serverVars, users,
                  loading, inputText, sending, usersReq, selects, sends,
                  timers, markReads, presenceVars >>

\* a presence update that adds the contact it does not find
SetOnlineOrAdd(us, id, flag) ==
  IF \E i \in DOMAIN us : us[i]._id = id
  THEN [i \in DOMAIN us |->
          IF us[i]._id = id THEN [us[i] EXCEPT !.isOnline = flag] ELSE us[i]]
  ELSE Append(us, [_id |-> id, isOnline |-> flag, unreadCount |-> 0])

\* prev.map(user => user._id === id ? { ...user, isOnline: flag } : user)
SetOnline(us, id, flag) ==
  [i \in DOMAIN us |->
     IF us[i]._id = id THEN [us[i] EXCEPT !.isOnline = flag] ELSE us[i]]

\* globalSocket.on('userOnline') and globalSocket.on('userOffline')
OnPresence(ev, id) ==
  /\ Budget(1)
  /\ globalSocket.made /\ globalSocket.open /\ globalSocket.connected
  /\ users' = (IF mounted THEN SetOnline(users, id, ev = "userOnline")
               ELSE users)
  /\ onlineUsers' = (IF ~mounted THEN onlineUsers
                     ELSE IF ev = "userOnline" THEN onlineUsers \cup {id}
                     ELSE onlineUsers \ {id})
  /\ emits' = <<>> /\ alert' = NULL
  /\ last' = [op |-> "presence", ev |-> ev, id |-> id]
  /\ UNCHANGED << now, identityVars, roomVars, storeVars, serverVars,
                  loading, inputText, sending, usersReq, selects, sends,
                  timers, markReads, mounted, presence, cleanupAsked,
                  globalSocket >>

\* the component unmounts: the cleanup of the [userId] effect of line 202
\* leaves its callback on the start's promise, the cleanup of lines 710-720
\* closes both sockets, then the callback runs if the start had returned
Unmount ==
  /\ Budget(0)
  /\ mounted
  /\ mounted' = FALSE
  /\ sockets' = Disconnect(socketRef, sockets)
  /\ cleanupAsked' = (presence = "token" /\ ThenRegistered(presence))
  /\ LET runNow == /\ presence = "done" /\ globalSocket.made
                   /\ ThenRegistered(presence)
         closed == IF globalSocket.made THEN UnmountClose(globalSocket)
                   ELSE globalSocket
     IN /\ globalSocket' = (IF runNow THEN PresenceCleanup(closed) ELSE closed)
        /\ emits' = (IF globalSocket.made
                     THEN << GlobalEmit("userOffline") >> ELSE <<>>)
                    \o (IF runNow THEN << GlobalEmit("userOffline") >> ELSE <<>>)
  /\ alert' = NULL /\ last' = [op |-> "unmount"]
  /\ UNCHANGED << now, identityVars, step, roomId, activeUserId, activeUser,
                  socketRef, storeVars, serverVars, users, loading, inputText,
                  sending, usersReq, selects, sends, timers, markReads,
                  presence, onlineUsers >>

\* -------------------------------------------------------- room connection
\* io(...): the new socket object
NewSid(ref, socks) ==
  Min({ n \in 1..(Cardinality(socks) + 2) :
          n \notin ({ s.sid : s \in socks } \cup {ref}) })

\* a select that connects without dropping the socket the ref holds
OpenRoomSocketLeak(ref, socks, room, capUserId, capActive) ==
  socks \cup
    { [sid |-> NewSid(ref, socks), room |-> room,
       capUserId |-> capUserId, capActive |-> capActive] }

\* lines 417-436: drop the socket the ref holds, connect one for the room
OpenRoomSocket(ref, socks, room, capUserId, capActive) ==
  Disconnect(ref, socks) \cup
    { [sid |-> NewSid(ref, socks), room |-> room,
       capUserId |-> capUserId, capActive |-> capActive] }

PeerOf(room) == IF room = "r1" THEN "p1" ELSE "p2"

RECURSIVE Reverse(_)
Reverse(s) == IF s = <<>> THEN <<>> ELSE Reverse(Tail(s)) \o <<Head(s)>>

\* GET /chat/rooms/{roomId}/messages: the page, newest first
ServerPage(room) == Reverse(serverLog[room])

\* ------------------------------------------------------- handleUserSelect
\* ui: the call comes from a press on the rendered contact list
HandleUserSelect(otherUser, ui) ==
  /\ Budget(1)
  /\ UNCHANGED presenceVars
  /\ ui => Visible("selectUser")
  /\ Cardinality(selects) < MaxSelects
  /\ activeUserId' = otherUser._id
  /\ activeUser' = otherUser
  /\ IF userId = NULL
     THEN /\ alert' = "User ID not loaded yet"
          /\ UNCHANGED << loading, selects >>
     ELSE /\ loading' = TRUE
          /\ selects' = selects \cup
               { [peer |-> otherUser._id, phase |-> "rooms", room |-> NULL,
                  capUserId |-> userId, capRole |-> role,
                  capActive |-> activeUserId] }
          /\ alert' = NULL
  /\ emits' = <<>> /\ last' = NoLast
  /\ UNCHANGED << now, identityVars, step, roomId, socketRef, sockets,
                  storeVars, serverVars, users, inputText, sending, usersReq,
                  sends, timers, markReads >>

\* GET /chat/rooms answered with a room id
RoomResolved(sel) ==
  /\ Budget(0)
  /\ UNCHANGED presenceVars
  /\ sel \in selects /\ sel.phase = "rooms"
  /\ LET activeRoomId ==
           IF sel.capRole = "customer"
           THEN ServerRoom(sel.capUserId, sel.peer)
           ELSE ServerRoom(sel.peer, sel.capUserId)
     IN /\ roomId' = activeRoomId
        /\ selects' = (selects \ {sel}) \cup
             { [sel EXCEPT !.phase = "fetch", !.room = activeRoomId] }
  /\ emits' = <<>> /\ alert' = NULL
  /\ last' = NoLast
  /\ UNCHANGED << now, identityVars, step, activeUserId, activeUser,
                  socketRef, sockets, storeVars, serverVars, users, loading,
                  inputText, sending, usersReq, sends, timers, markReads >>

\* a failure path without the finally block
RoomFailedNoFinally(sel) ==
  /\ Budget(0)
  /\ UNCHANGED presenceVars
  /\ sel \in selects /\ sel.phase = "rooms"
  /\ selects' = selects \ {sel}
  /\ alert' = "Failed to start chat"
  /\ emits' = <<>> /\ last' = [op |-> "roomFailed", peer |-> sel.peer]
  /\ UNCHANGED << now, identityVars, roomVars, storeVars, serverVars, users,
                  loading, inputText, sending, usersReq, sends, timers,
                  markReads >>

\* GET /chat/rooms failed, or answered without a roomId
RoomFailed(sel) ==
  /\ Budget(0)
  /\ UNCHANGED presenceVars
  /\ sel \in selects /\ sel.phase = "rooms"
  /\ selects' = selects \ {sel}
  /\ alert' = "Failed to start chat"
  /\ loading' = FALSE
  /\ emits' = <<>> /\ last' = [op |-> "roomFailed", peer |-> sel.peer]
  /\ UNCHANGED << now, identityVars, roomVars, storeVars, serverVars, users,
                  inputText, sending, usersReq, sends, timers, markReads >>

\* fetchMessages returned (outcome: "items", "noitems" or "error"); the rest
\* of handleUserSelect runs: the socket is replaced and the chat is shown.
\* The two requests the select awaited took time: the clock has advanced.
MessagesFetched(sel, outcome) ==
  /\ Budget(0)
  /\ UNCHANGED presenceVars
  /\ sel \in selects /\ sel.phase = "fetch"
  /\ now' = now + 1
  /\ selects' = selects \ {sel}
  /\ IF outcome = "items"
     THEN /\ messages' = Reverse(ServerPage(sel.room))
          /\ groupedMessages' = MessagesEffect(TRUE, messages', groupedMessages, now')
          /\ timers' = timers \cup
               { [room |-> sel.room, capUserId |-> sel.capUserId,
                  capActive |-> sel.capActive] }
     ELSE UNCHANGED << messages, groupedMessages, timers >>
  /\ sockets' = OpenRoomSocket(socketRef, sockets, sel.room,
                               sel.capUserId, sel.capActive)
  /\ socketRef' = NewSid(socketRef, sockets)
  /\ emits' = << [sid |-> socketRef', ev |-> "joinRoom", arg |-> sel.room] >>
  /\ step' = "chat"
  /\ loading' = FALSE
  /\ alert' = NULL
  /\ last' = [op |-> "fetched", peer |-> sel.peer, outcome |-> outcome,
               replaced |-> (socketRef # 0)]
  /\ UNCHANGED << identityVars, roomId, activeUserId, activeUser,
                  serverVars, users, inputText, sending, usersReq, sends,
                  markReads >>

\* ---------------------------------------------------------------- handleBack
\* a handleBack without setGroupedMessages([])
HandleBackKeepGroups(ui) ==
  /\ Budget(0)
  /\ UNCHANGED presenceVars
  /\ ui => Visible("chat")
  /\ sockets' = Disconnect(socketRef, sockets)
  /\ socketRef' = 0
  /\ roomId' = NULL
  /\ messages' = <<>>
  /\ UNCHANGED groupedMessages
  /\ inputText' = <<>>
  /\ activeUser' = NULL
  /\ activeUserId' = NULL
  /\ step' = "selectUser"
  /\ emits' = <<>> /\ alert' = NULL /\ last' = [op |-> "back"]
  /\ UNCHANGED << now, identityVars, serverVars, users, loading, sending,
                  usersReq, selects, sends, timers, markReads >>

HandleBack(ui) ==
  /\ Budget(0)
  /\ UNCHANGED presenceVars
  /\ ui => Visible("chat")
  /\ sockets' = Disconnect(socketRef, sockets)
  /\ socketRef' = 0
  /\ roomId' = NULL
  /\ messages' = <<>>
  /\ groupedMessages' = <<>>
  /\ inputText' = <<>>
  /\ activeUser' = NULL
  /\ activeUserId' = NULL
  /\ step' = "selectUser"
  /\ emits' = <<>> /\ alert' = NULL /\ last' = [op |-> "back"]
  /\ UNCHANGED << now, identityVars, serverVars, users, loading, sending,
                  usersReq, selects, sends, timers, markReads >>

\* --------------------------------------------------------- message store
\* prev.some(m => m._id === id)
HasId(msgs, id) == \E i \in DOMAIN msgs : msgs[i]._id = id

\* a replacement that goes by position, the newest entry, instead of by id
ReplaceNewest(msgs, id, final) ==
  [i \in DOMAIN msgs |-> IF i = Len(msgs) THEN final ELSE msgs[i]]

\* prev.map(msg => msg._id === tempId ? final : msg)
ReplaceById(msgs, id, final) ==
  [i \in DOMAIN msgs |-> IF msgs[i]._id = id THEN final ELSE msgs[i]]

\* a rollback that removes nothing
RemoveNothing(msgs, id) == msgs

\* prev.filter(msg => msg._id !== tempId)
RemoveById(msgs, id) == SelectSeq(msgs, LAMBDA m : m._id # id)

\* a newMessage updater without the duplicate test
AppendAlways(msgs, msg) == Append(msgs, msg)

\* the newMessage handler's updater (lines 441-445)
AppendIfAbsent(msgs, msg) ==
  IF HasId(msgs, msg._id) THEN msgs ELSE Append(msgs, msg)

\* ------------------------------------------------------------- user input
SetInputText(t, ui) ==
  /\ Budget(0)
  /\ UNCHANGED presenceVars
  /\ ui => Visible("chat")
  /\ t # inputText
  /\ inputText' = t
  /\ emits' = <<>> /\ alert' = NULL /\ last' = NoLast
  /\ UNCHANGED << now, identityVars, roomVars, storeVars, serverVars, users,
                  loading, sending, usersReq, selects, sends, timers,
                  markReads >>

\* --------------------------------------------------------------- sendMessage
\* a sendMessage that does not look at the sending flag
SendMessageNoFlagTest(ui) ==
  /\ Budget(1)
  /\ UNCHANGED presenceVars
  /\ ui => Visible("chat")
  /\ Trim(inputText) # <<>> /\ roomId # NULL /\ userId # NULL
  /\ Cardinality(sends) < MaxSends
  /\ \E t \in ClockReadings :
     LET messageText == Trim(inputText)
         tempId == TempId(t)
         tempMessage == [_id |-> tempId, senderId |-> userId,
                         createdAt |-> t, content |-> messageText,
                         images |-> <<>>, readBy |-> <<>>]
     IN /\ now' = t
        /\ inputText' = <<>>
        /\ sending' = TRUE
        /\ messages' = Append(messages, tempMessage)
        /\ groupedMessages' = MessagesEffect(TRUE, messages', groupedMessages, t)
        /\ sends' = sends \cup
             { [kind |-> "text", tempId |-> tempId, room |-> roomId,
                text |-> messageText, capUserId |-> userId, saved |-> <<>>] }
        /\ last' = [op |-> "sendText", tempId |-> tempId]
  /\ emits' = <<>> /\ alert' = NULL
  /\ UNCHANGED << identityVars, roomVars, serverVars, users, loading,
                  usersReq, selects, timers, markReads >>

SendMessage(ui) ==
  /\ Budget(1)
  /\ UNCHANGED presenceVars
  /\ ui => Visible("chat")
  /\ Trim(inputText) # <<>> /\ roomId # NULL /\ userId # NULL /\ ~sending
  /\ Cardinality(sends) < MaxSends
  /\ \E t \in ClockReadings :
     LET messageText == Trim(inputText)
         tempId == TempId(t)
         tempMessage == [_id |-> tempId, senderId |-> userId,
                         createdAt |-> t, content |-> messageText,
                         images |-> <<>>, readBy |-> <<>>]
     IN /\ now' = t
        /\ inputText' = <<>>
        /\ sending' = TRUE
        /\ messages' = Append(messages, tempMessage)
        /\ groupedMessages' = MessagesEffect(TRUE, messages', groupedMessages, t)
        /\ sends' = sends \cup
             { [kind |-> "text", tempId |-> tempId, room |-> roomId,
                text |-> messageText, capUserId |-> userId, saved |-> <<>>] }
        /\ last' = [op |-> "sendText", tempId |-> tempId]
  /\ emits' = <<>> /\ alert' = NULL
  /\ UNCHANGED << identityVars, roomVars, serverVars, users, loading,
                  usersReq, selects, timers, markReads >>

\* handleImagePick and the picker's callback with one asset
HandleImagePick(ui) ==
  /\ Budget(1)
  /\ UNCHANGED presenceVars
  /\ ui => Visible("chat")
  /\ roomId # NULL
  /\ Cardinality(sends) < MaxSends
  /\ \E t \in ClockReadings :
     LET tempId == TempImgId(t)
         tempMessage == [_id |-> tempId, senderId |-> userId,
                         createdAt |-> t, content |-> <<>>,
                         images |-> <<"uri">>, readBy |-> <<>>]
     IN /\ now' = t
        /\ messages' = Append(messages, tempMessage)
        /\ groupedMessages' = MessagesEffect(TRUE, messages', groupedMessages, t)
        /\ sends' = sends \cup
             { [kind |-> "img", tempId |-> tempId, room |-> roomId,
                text |-> <<>>, capUserId |-> userId, saved |-> <<>>] }
        /\ last' = [op |-> "sendImage", tempId |-> tempId]
  /\ emits' = <<>> /\ alert' = NULL
  /\ UNCHANGED << identityVars, roomVars, serverVars, users, loading,
                  inputText, sending, usersReq, selects, timers, markReads >>

\* backend: POST /chat/rooms/{roomId}/messages persists the message
ServerPersist(s) ==
  /\ Budget(0)
  /\ UNCHANGED presenceVars
  /\ s \in sends /\ s.saved = <<>>
  /\ nextId <= MaxSrvMsgs
  /\ LET msg == [_id |-> SrvId(nextId), senderId |-> s.capUserId,
                 createdAt |-> ServerNow, content |-> s.text,
                 images |-> (IF s.kind = "img" THEN <<"url">> ELSE <<>>),
                 readBy |-> <<>>]
     IN /\ serverLog' = [serverLog EXCEPT ![s.room] = Append(@, msg)]
        /\ sends' = (sends \ {s}) \cup { [s EXCEPT !.saved = <<msg>>] }
  /\ nextId' = nextId + 1
  /\ emits' = <<>> /\ alert' = NULL /\ last' = NoLast
  /\ UNCHANGED << now, identityVars, roomVars, storeVars, users, loading,
                  inputText, sending, usersReq, selects, timers, markReads >>

\* the POST resolved: lines 537-545 / 606-613, and the finally of sendMessage
SendConfirmed(s) ==
  /\ Budget(0)
  /\ UNCHANGED presenceVars
  /\ s \in sends /\ s.saved # <<>>
  /\ sends' = sends \ {s}
  /\ messages' = ReplaceById(messages, s.tempId, s.saved[1])
  /\ groupedMessages' = MessagesEffect(TRUE, messages', groupedMessages, now)
  /\ emits' = (IF socketRef # 0
               THEN << [sid |-> socketRef, ev |-> "sendMessage",
                        arg |-> s.saved[1]] >>
               ELSE <<>>)
  /\ sending' = (IF s.kind = "text" THEN FALSE ELSE sending)
  /\ alert' = NULL
  /\ last' = [op |-> "sendConfirmed", send |-> s,
               had |-> HasId(messages, s.tempId)]
  /\ UNCHANGED << now, identityVars, roomVars, serverVars, users, loading,
                  inputText, usersReq, selects, timers, markReads >>

\* a failure path that broadcasts the entry it rolls back
SendFailedBroadcast(s) ==
  /\ Budget(0)
  /\ UNCHANGED presenceVars
  /\ s \in sends
  /\ sends' = sends \ {s}
  /\ messages' = RemoveById(messages, s.tempId)
  /\ groupedMessages' = MessagesEffect(TRUE, messages', groupedMessages, now)
  /\ alert' = (IF s.kind = "text" THEN "Failed to send message"
               ELSE "Failed to send image. Please try again.")
  /\ inputText' = (IF s.kind = "text" THEN s.text ELSE inputText)
  /\ sending' = (IF s.kind = "text" THEN FALSE ELSE sending)
  /\ emits' = (IF socketRef # 0
               THEN << [sid |-> socketRef, ev |-> "sendMessage",
                        arg |-> [_id |-> s.tempId]] >>
               ELSE <<>>)
  /\ last' = [op |-> "sendFailed", send |-> s,
               had |-> HasId(messages, s.tempId)]
  /\ UNCHANGED << now, identityVars, roomVars, serverVars, users, loading,
                  usersReq, selects, timers, markReads >>

\* the POST rejected: lines 546-554 / 614-619
SendFailed(s) ==
  /\ Budget(0)
  /\ UNCHANGED presenceVars
  /\ s \in sends
  /\ sends' = sends \ {s}
  /\ messages' = RemoveById(messages, s.tempId)
  /\ groupedMessages' = MessagesEffect(TRUE, messages', groupedMessages, now)
  /\ alert' = (IF s.kind = "text" THEN "Failed to send message"
               ELSE "Failed to send image. Please try again.")
  /\ inputText' = (IF s.kind = "text" THEN s.text ELSE inputText)
  /\ sending' = (IF s.kind = "text" THEN FALSE ELSE sending)
  /\ emits' = <<>>
  /\ last' = [op |-> "sendFailed", send |-> s,
               had |-> HasId(messages, s.tempId)]
  /\ UNCHANGED << now, identityVars, roomVars, serverVars, users, loading,
                  usersReq, selects, timers, markReads >>

\* ------------------------------------------------------ backend and peers
\* the peer of a room posts a message
PeerSend(room) ==
  /\ Budget(1)
  /\ UNCHANGED presenceVars
  /\ nextId <= MaxSrvMsgs
  /\ serverLog' = [serverLog EXCEPT ![room] =
       Append(@, [_id |-> SrvId(nextId), senderId |-> PeerOf(room),
                  createdAt |-> ServerNow, content |-> <<"h">>,
                  images |-> <<>>,
                  readBy |-> <<>>])]
  /\ nextId' = nextId + 1
  /\ emits' = <<>> /\ alert' = NULL /\ last' = NoLast
  /\ UNCHANGED << now, identityVars, roomVars, storeVars, users, loading,
                  inputText, sending, usersReq, selects, sends, timers,
                  markReads >>

\* ----------------------------------------------- room socket's handlers
\* a test that lets every message through
FromAnyUser(msg, uid) == TRUE

\* msg.senderId !== userId, with the userId of the handler's closure
NotFromCurrentUser(msg, uid) == msg.senderId # uid

\* a newMessage handler that counts the message as unread for its sender
OnNewMessageCountsUnread(sock, msg) ==
  /\ Budget(1)
  /\ UNCHANGED presenceVars
  /\ sock \in sockets
  /\ messages' = AppendIfAbsent(messages, msg)
  /\ groupedMessages' =
       MessagesEffect(~HasId(messages, msg._id), messages', groupedMessages, now)
  /\ timers' = (IF NotFromCurrentUser(msg, sock.capUserId)
                THEN timers \cup { [room |-> sock.room,
                                    capUserId |-> sock.capUserId,
                                    capActive |-> sock.capActive] }
                ELSE timers)
  /\ users' = [i \in DOMAIN users |->
                 IF users[i]._id = msg.senderId
                 THEN [users[i] EXCEPT !.unreadCount = 1]
                 ELSE users[i]]
  /\ emits' = <<>> /\ alert' = NULL
  /\ last' = [op |-> "newMessage", id |-> msg._id,
               dup |-> HasId(messages, msg._id),
               afterFail |-> (last.op = "markReadFailed")]
  /\ UNCHANGED << now, identityVars, roomVars, serverVars, loading,
                  inputText, sending, usersReq, selects, sends, markReads >>

\* socket.on('newMessage'): a pushed copy of a persisted message of the room
OnNewMessage(sock, msg) ==
  /\ Budget(1)
  /\ UNCHANGED presenceVars
  /\ sock \in sockets
  /\ messages' = AppendIfAbsent(messages, msg)
  /\ groupedMessages' =
       MessagesEffect(~HasId(messages, msg._id), messages', groupedMessages, now)
  /\ timers' = (IF NotFromCurrentUser(msg, sock.capUserId)
                THEN timers \cup { [room |-> sock.room,
                                    capUserId |-> sock.capUserId,
                                    capActive |-> sock.capActive] }
                ELSE timers)
  /\ emits' = <<>> /\ alert' = NULL
  /\ last' = [op |-> "newMessage", id |-> msg._id,
               dup |-> HasId(messages, msg._id),
               afterFail |-> (last.op = "markReadFailed")]
  /\ UNCHANGED << now, identityVars, roomVars, serverVars, users, loading,
                  inputText, sending, usersReq, selects, sends, markReads >>

\* socket.on('messageUpdated')
OnMessageUpdated(sock, updatedMsg) ==
  /\ Budget(1)
  /\ UNCHANGED presenceVars
  /\ sock \in sockets
  /\ messages' = ReplaceById(messages, updatedMsg._id, updatedMsg)
  /\ groupedMessages' = MessagesEffect(TRUE, messages', groupedMessages, now)
  /\ emits' = <<>> /\ alert' = NULL
  /\ last' = [op |-> "messageUpdated", id |-> updatedMsg._id]
  /\ UNCHANGED << now, identityVars, roomVars, serverVars, users, loading,
                  inputText, sending, usersReq, selects, sends, timers,
                  markReads >>

\* findIndex(r => r.userId === uid): 0 when there is none
ReadIndex(readBy, uid) ==
  IF \E i \in DOMAIN readBy : readBy[i].userId = uid
  THEN Min({ i \in DOMAIN readBy : readBy[i].userId = uid })
  ELSE 0

\* the readBy of a message after a read receipt (lines 465-472)
UpsertRead(readBy, data) ==
  LET entry == [userId |-> data.userId, readAt |-> data.readAt]
      existingReadIndex == ReadIndex(readBy, data.userId)
  IN IF existingReadIndex > 0
     THEN [readBy EXCEPT ![existingReadIndex] = entry]
     ELSE Append(readBy, entry)

\* socket.on('messageRead')
OnMessageRead(sock, data) ==
  /\ Budget(1)
  /\ UNCHANGED presenceVars
  /\ sock \in sockets
  /\ messages' =
       [i \in DOMAIN messages |->
          IF messages[i]._id = data.messageId
             /\ messages[i].senderId = sock.capUserId
          THEN [messages[i] EXCEPT !.readBy = UpsertRead(@, data)]
          ELSE messages[i]]
  /\ groupedMessages' = MessagesEffect(TRUE, messages', groupedMessages, now)
  /\ emits' = <<>> /\ alert' = NULL
  /\ last' = [op |-> "messageRead", id |-> data.messageId]
  /\ UNCHANGED << now, identityVars, roomVars, serverVars, users, loading,
                  inputText, sending, usersReq, selects, sends, timers,
                  markReads >>

\* ------------------------------------------------------ markMessagesAsRead
\* a 500 ms timer fires: markMessagesAsRead(room) of the closure that set it
TimerFires(t) ==
  /\ Budget(0)
  /\ UNCHANGED presenceVars
  /\ t \in timers
  /\ timers' = timers \ {t}
  /\ markReads' = (IF t.capUserId = NULL THEN markReads ELSE markReads \cup {t})
  /\ emits' = <<>> /\ alert' = NULL
  /\ last' = [op |-> "timer", room |-> t.room,
               afterFail |-> (last.op = "newMessage" /\ last.afterFail)]
  /\ UNCHANGED << now, identityVars, roomVars, storeVars, serverVars, users,
                  loading, inputText, sending, usersReq, selects, sends >>

\* a merge that also appends the updates it has no entry for
MergeOrAppend(msgs, updatedMessages) ==
  [i \in DOMAIN msgs |->
     IF \E j \in DOMAIN updatedMessages : updatedMessages[j]._id = msgs[i]._id
     THEN LET js == { j \in DOMAIN updatedMessages :
                        updatedMessages[j]._id = msgs[i]._id }
          IN updatedMessages[CHOOSE j \in js : \A k \in js : k <= j]
     ELSE msgs[i]]
  \o SelectSeq(updatedMessages,
               LAMBDA u : \A i \in DOMAIN msgs : msgs[i]._id # u._id)

\* prevMessages.map(msg => updatedMessagesMap.get(msg._id) ?? msg)
MergeUpdated(msgs, updatedMessages) ==
  [i \in DOMAIN msgs |->
     IF \E j \in DOMAIN updatedMessages : updatedMessages[j]._id = msgs[i]._id
     THEN LET js == { j \in DOMAIN updatedMessages :
                        updatedMessages[j]._id = msgs[i]._id }
          IN updatedMessages[CHOOSE j \in js : \A k \in js : k <= j]
     ELSE msgs[i]]

\* the mark-read POST resolved with an updatedMessages array (lines 330-358)
MarkReadOk(mr, updatedMessages) ==
  /\ Budget(0)
  /\ UNCHANGED presenceVars
  /\ mr \in markReads
  /\ markReads' = markReads \ {mr}
  /\ messages' = MergeUpdated(messages, updatedMessages)
  /\ groupedMessages' = MessagesEffect(TRUE, messages', groupedMessages, now)
  /\ emits' = (IF socketRef # 0
               THEN [j \in DOMAIN updatedMessages |->
                       [sid |-> socketRef, ev |-> "messageRead",
                        arg |-> [messageId |-> updatedMessages[j]._id,
                                 userId |-> mr.capUserId,
                                 roomId |-> mr.room]]]
               ELSE <<>>)
  /\ users' = (IF mr.capActive # NULL
               THEN [i \in DOMAIN users |->
                       IF users[i]._id = mr.capActive
                       THEN [users[i] EXCEPT !.unreadCount = 0]
                       ELSE users[i]]
               ELSE users)
  /\ alert' = NULL
  /\ last' = [op |-> "markReadOk", room |-> mr.room]
  /\ UNCHANGED << now, identityVars, roomVars, serverVars, loading, inputText,
                  sending, usersReq, selects, sends, timers >>

\* a catch that tells the user
MarkReadFailedAlert(mr) ==
  /\ Budget(0)
  /\ UNCHANGED presenceVars
  /\ mr \in markReads
  /\ markReads' = markReads \ {mr}
  /\ emits' = <<>> /\ alert' = "Failed to mark messages as read"
  /\ last' = [op |-> "markReadFailed", room |-> mr.room]
  /\ UNCHANGED << now, identityVars, roomVars, storeVars, serverVars, users,
                  loading, inputText, sending, usersReq, selects, sends,
                  timers >>

\* the mark-read POST rejected (lines 359-361)
MarkReadFailed(mr) ==
  /\ Budget(0)
  /\ UNCHANGED presenceVars
  /\ mr \in markReads
  /\ markReads' = markReads \ {mr}
  /\ emits' = <<>> /\ alert' = NULL
  /\ last' = [op |-> "markReadFailed", room |-> mr.room]
  /\ UNCHANGED << now, identityVars, roomVars, storeVars, serverVars, users,
                  loading, inputText, sending, usersReq, selects, sends,
                  timers >>

\* ---------------------------------------------------------- environment
\* the copies and snapshots of a room's messages the backend can send
Snapshots(room) ==
  { [m EXCEPT !.readBy = rb] : m \in Range(serverLog[room]), rb \in ReadBys }

ReadEvents(room) ==
  [messageId : { m._id : m \in Range(serverLog[room]) },
   userId : {PeerOf(room)}, readAt : {1}]

\* updatedMessages of a mark-read response: the unread messages of the room
\* with the reader added
UpdatedPayloads(room, reader) ==
  { SelectSeq([i \in DOMAIN serverLog[room] |->
                 [serverLog[room][i] EXCEPT
                    !.readBy = << [userId |-> reader, readAt |-> 0] >>]],
              LAMBDA m : m._id \in ids) :
      ids \in SUBSET { m._id : m \in Range(serverLog[room]) } }

\* ------------------------------------------- groupMessagesByDate alone
\* the logs groupMessagesByDate is given: any arrival order of messages
\* stamped within three calendar days
ProjectTimes == { d * DayLen + o : d \in 0..2, o \in 0..1 }

ProjectLogs ==
  UNION { [1..n -> ProjectTimes] : n \in 0..MaxLogLen }

ProjectMessage(i, t) ==
  [_id |-> SrvId(i), senderId |-> Me, createdAt |-> t, content |-> <<"h">>,
   images |-> <<>>, readBy |-> <<>>]

InitProject ==
  /\ now \in {2 * DayLen, 3 * DayLen}
  /\ token = TRUE
  /\ cache = [userId |-> NULL, role |-> NULL]
  /\ \E ts \in ProjectLogs :
       messages = [i \in DOMAIN ts |-> ProjectMessage(i, ts[i])]
  /\ InitComponent

\* setGroupedMessages(groupMessagesByDate(messages)), at most twice in a run
ProjectCall ==
  /\ work < 2
  /\ UNCHANGED presenceVars
  /\ work' = work + 1
  /\ LET run == groupMessagesByDateRun(messages, DateKey(now))
     IN /\ groupedMessages' = run.result
        /\ messages' = run.input
  /\ last' = [op |-> "project", before |-> groupedMessages]
  /\ emits' = <<>> /\ alert' = NULL
  /\ UNCHANGED << now, identityVars, roomVars, serverVars, users, loading,
                  inputText, sending, usersReq, selects, sends, timers,
                  markReads >>

NextProject == ProjectCall

SpecProject == InitProject /\ [][NextProject]_vars

\* ------------------------------------------------ getMessageReadStatus
\* message.readBy is present (the field is optional in Message)
HasReadBy(message) == "readBy" \in DOMAIN message

\* a status that takes every message of the user for sent
getMessageReadStatusNoTempTest(message, uid) ==
  IF ~HasReadBy(message) \/ message.senderId # uid
  THEN [isRead |-> FALSE, isSent |-> FALSE]
  ELSE [isSent |-> TRUE,
        isRead |-> \E i \in DOMAIN message.readBy :
                     message.readBy[i].userId # message.senderId]

\* lines 631-643, with the userId of the render
getMessageReadStatus(message, uid) ==
  IF ~HasReadBy(message) \/ message.senderId # uid
  THEN [isRead |-> FALSE, isSent |-> FALSE]
  ELSE [isSent |-> ~StartsWithTemp(message._id),
        isRead |-> \E i \in DOMAIN message.readBy :
                     message.readBy[i].userId # message.senderId]

\* the messages a render can hand to getMessageReadStatus: any id kind, the
\* user's own or the peer's, readBy absent, empty or naming either side
StatusReadBys ==
  ReadBys \cup { << [userId |-> Me, readAt |-> 0], [userId |-> "p1", readAt |-> 0] >> }

StatusMessages ==
  LET base == [_id : {SrvId(1), TempId(DayLen), TempImgId(DayLen)},
               senderId : {Me, "p1"}, createdAt : {DayLen},
               content : {<<"h">>}, images : {<<>>}]
  IN base \cup
     { [_id |-> b._id, senderId |-> b.senderId, createdAt |-> b.createdAt,
        content |-> b.content, images |-> b.images, readBy |-> rb] :
         b \in base, rb \in StatusReadBys }

InitStatus ==
  /\ now = DayLen
  /\ token = TRUE
  /\ cache = [userId |-> NULL, role |-> NULL]
  /\ profileReq = FALSE
  /\ userId \in {NULL, Me}
  /\ role = (IF userId = NULL THEN NULL ELSE ServerProfile.role)
  /\ \E m \in StatusMessages : messages = <<m>>
  /\ step = "chat" /\ users = <<>> /\ roomId = "r1"
  /\ groupedMessages = <<>>
  /\ loading = FALSE /\ inputText = <<>> /\ sending = FALSE
  /\ activeUserId = "p1" /\ activeUser = NULL
  /\ socketRef = 0 /\ sockets = {}
  /\ usersReq = NULL /\ selects = {} /\ sends = {}
  /\ timers = {} /\ markReads = {}
  /\ serverLog = InitialServerLog /\ nextId = 1 /\ work = 0
  /\ emits = <<>> /\ alert = NULL /\ last = NoLast
  /\ mounted = TRUE /\ presence = "none" /\ cleanupAsked = FALSE
  /\ globalSocket = NoGlobalSocket /\ onlineUsers = {}

\* the render of a message row calls getMessageReadStatus(item)
StatusCall ==
  /\ work < 1
  /\ work' = work + 1
  /\ last' = [op |-> "status",
               status |-> getMessageReadStatus(messages[1], userId)]
  /\ emits' = <<>> /\ alert' = NULL
  /\ UNCHANGED << now, identityVars, roomVars, storeVars, serverVars, users,
                  loading, inputText, sending, usersReq, selects, sends,
                  timers, markReads, presenceVars >>

NextStatus == StatusCall

SpecStatus == InitStatus /\ [][NextStatus]_vars

\* --------------------------------------------------- getActivityStatus
\* 1000 * 60: milliseconds per minute (times of this section are in ms)
MsPerMinute == 60000

\* !user.lastSeen is false (the field is optional in User)
HasLastSeen(user) == "lastSeen" \in DOMAIN user

\* a status whose minutes run up to and including the sixtieth
getActivityStatusLateHour(user, t) ==
  IF user.isOnline THEN [text |-> "Online", n |-> 0, color |-> "#4CAF50"]
  ELSE IF ~HasLastSeen(user) THEN [text |-> "Offline", n |-> 0, color |-> "#999"]
  ELSE LET diffMinutes == (t - user.lastSeen) \div MsPerMinute
       IN IF diffMinutes < 5
          THEN [text |-> "Just now", n |-> 0, color |-> "#4CAF50"]
          ELSE IF diffMinutes <= 60
          THEN [text |-> "m ago", n |-> diffMinutes, color |-> "#FF9800"]
          ELSE IF diffMinutes < 1440
          THEN [text |-> "h ago", n |-> diffMinutes \div 60, color |-> "#FF9800"]
          ELSE [text |-> "d ago", n |-> diffMinutes \div 1440, color |-> "#999"]

\* lines 103-125; t is new Date().getTime(), the label `${n}m ago` is the
\* pair of its text and its number n
getActivityStatus(user, t) ==
  IF user.isOnline THEN [text |-> "Online", n |-> 0, color |-> "#4CAF50"]
  ELSE IF ~HasLastSeen(user) THEN [text |-> "Offline", n |-> 0, color |-> "#999"]
  ELSE LET diffMinutes == (t - user.lastSeen) \div MsPerMinute
       IN IF diffMinutes < 5
          THEN [text |-> "Just now", n |-> 0, color |-> "#4CAF50"]
          ELSE IF diffMinutes < 60
          THEN [text |-> "m ago", n |-> diffMinutes, color |-> "#FF9800"]
          ELSE IF diffMinutes < 1440
          THEN [text |-> "h ago", n |-> diffMinutes \div 60, color |-> "#FF9800"]
          ELSE [text |-> "d ago", n |-> diffMinutes \div 1440, color |-> "#999"]

\* the render's clock
ActivityNow == 4 * 1440 * MsPerMinute

\* ages of lastSeen, in minutes, around every threshold of the function; a
\* lastSeen is one of these before ActivityNow, or a millisecond less
ActivityAgeMinutes == {-1, 0, 5, 6, 59, 60, 61, 120, 1439, 1440, 1441, 2880}

ActivityLastSeens ==
  { ActivityNow - a * MsPerMinute + d : a \in ActivityAgeMinutes, d \in {0, 1} }

ActivityUsers ==
  [_id : {"p1"}, isOnline : BOOLEAN, unreadCount : {0}]
  \cup [_id : {"p1"}, isOnline : BOOLEAN, unreadCount : {0},
        lastSeen : ActivityLastSeens]

InitActivity ==
  /\ now \in {ActivityNow, ActivityNow + 1}
  /\ token = TRUE
  /\ cache = [userId |-> NULL, role |-> NULL]
  /\ profileReq = FALSE
  /\ userId = Me /\ role = ServerProfile.role
  /\ messages = <<>>
  /\ activeUser \in ActivityUsers
  /\ activeUserId = activeUser._id
  /\ step = "chat" /\ users = <<>> /\ roomId = "r1"
  /\ groupedMessages = <<>>
  /\ loading = FALSE /\ inputText = <<>> /\ sending = FALSE
  /\ socketRef = 0 /\ sockets = {}
  /\ usersReq = NULL /\ selects = {} /\ sends = {}
  /\ timers = {} /\ markReads = {}
  /\ serverLog = InitialServerLog /\ nextId = 1 /\ work = 0
  /\ emits = <<>> /\ alert = NULL /\ last = NoLast
  /\ mounted = TRUE /\ presence = "none" /\ cleanupAsked = FALSE
  /\ globalSocket = NoGlobalSocket /\ onlineUsers = {}

\* the render of the chat header: getActivityStatus(activeUser), line 778
ActivityCall ==
  /\ work < 1
  /\ work' = work + 1
  /\ last' = [op |-> "activity", status |-> getActivityStatus(activeUser, now)]
  /\ emits' = <<>> /\ alert' = NULL
  /\ UNCHANGED << now, identityVars, roomVars, storeVars, serverVars, users,
                  loading, inputText, sending, usersReq, selects, sends,
                  timers, markReads, presenceVars >>

NextActivity == ActivityCall

SpecActivity == InitActivity /\ [][NextActivity]_vars

\* ------------------------------------------------------------------- Next
IdentitySteps ==
  \/ LoadProfileNoToken
  \/ LoadProfileOk
  \/ LoadProfileFail
  \/ FetchUsersOk
  \/ FetchUsersFail

\* the contacts handleUserSelect can be called with: through the screen the
\* rows of the list, at handler level any contact
SelectableUsers(ui) ==
  IF ui THEN Range(users) ELSE Range(users) \cup Range(LoadedContacts)

RoomSteps(ui) ==
  \/ \E u \in SelectableUsers(ui) : HandleUserSelect(u, ui)
  \/ \E sel \in selects : RoomResolved(sel)
  \/ \E sel \in selects : RoomFailed(sel)
  \/ \E sel \in selects, o \in {"items", "noitems", "error"} :
       MessagesFetched(sel, o)
  \/ HandleBack(ui)

SendSteps(ui) ==
  \/ \E t \in InputTexts : SetInputText(t, ui)
  \/ SendMessage(ui)
  \/ HandleImagePick(ui)
  \/ \E s \in sends : ServerPersist(s)
  \/ \E s \in sends : SendConfirmed(s)
  \/ \E s \in sends : SendFailed(s)

InboundSteps ==
  \/ \E room \in Rooms : PeerSend(room)
  \/ \E sock \in sockets : \E msg \in Range(serverLog[sock.room]) :
       OnNewMessage(sock, msg)
  \/ \E sock \in sockets : \E m \in Snapshots(sock.room) :
       OnMessageUpdated(sock, m)
  \/ \E sock \in sockets : \E d \in ReadEvents(sock.room) :
       OnMessageRead(sock, d)

MarkReadSteps ==
  \/ \E t \in timers : TimerFires(t)
  \/ \E mr \in markReads : \E u \in UpdatedPayloads(mr.room, mr.capUserId) :
       MarkReadOk(mr, u)
  \/ \E mr \in markReads : MarkReadFailed(mr)

\* the program as the user drives it through the rendered screen
Next ==
  \/ IdentitySteps
  \/ RoomSteps(TRUE)
  \/ SendSteps(TRUE)
  \/ InboundSteps
  \/ MarkReadSteps

Spec == Init /\ [][Next]_vars

PresenceSteps ==
  \/ PresenceTokenRead
  \/ PresenceConnect
  \/ Heartbeat
  \/ \E ev \in {"userOnline", "userOffline"}, id \in PresenceIds :
       OnPresence(ev, id)

\* identity, contacts and the Presence Tracker over the component's life;
\* a promise that can resolve does resolve
NextPresence ==
  \/ IdentitySteps
  \/ PresenceSteps
  \/ Unmount

SpecPresence ==
  Init /\ [][NextPresence]_vars /\ WF_vars(PresenceTokenRead)

\* the screen's program together with the Presence Tracker: both connections
\* open at once, their events in any order
NextStore ==
  \/ Next
  \/ PresenceSteps

SpecStore == Init /\ [][NextStore]_vars

\* the Room Session Manager alone, its operations called in any order,
\* whatever the screen shows, with the start of the presence connection
NextRoom ==
  \/ IdentitySteps
  \/ RoomSteps(FALSE)
  \/ PresenceTokenRead

SpecRoom == Init /\ [][NextRoom]_vars

\* ================================================================ claims
\* how often an id occurs in a log
Count(msgs, id) == Cardinality({ i \in DOMAIN msgs : msgs[i]._id = id })

\* the users a readBy list names
ReadUsers(readBy) == { readBy[i].userId : i \in DOMAIN readBy }

\* C1: in every reachable state no two stored messages share an id
C1_UniqueIds ==
  \A i, j \in DOMAIN messages : i # j => messages[i]._id # messages[j]._id

\* C2: when a pending send is confirmed, its temporary entry is replaced in
\* place: same length, the server's message at the index the temporary entry
\* had, every other entry unchanged, no entry with the temporary id left
C2_ReplaceInPlace ==
  [][ \A s \in sends :
        (SendConfirmed(s) /\ HasId(messages, s.tempId)) =>
          /\ Len(messages') = Len(messages)
          /\ \E i \in DOMAIN messages :
               /\ messages[i]._id = s.tempId
               /\ messages'[i] = s.saved[1]
               /\ \A j \in DOMAIN messages \ {i} : messages'[j] = messages[j]
          /\ ~HasId(messages', s.tempId) ]_vars

\* C3: when the request of a text send fails, no entry with its temporary id
\* is left, the other entries are unchanged, the input holds the content that
\* was sent and the sending flag is false
C3_RollbackRestoresInput ==
  [][ \A s \in sends :
        (s.kind = "text" /\ SendFailed(s)) =>
          /\ \A i \in DOMAIN messages' : messages'[i]._id # s.tempId
          /\ messages' = SelectSeq(messages, LAMBDA m : m._id # s.tempId)
          /\ inputText' = s.text
          /\ sending' = FALSE ]_vars

\* a failed text send has removed its entry from a log that holds others
C3_Witness ==
  /\ last.op = "sendFailed" /\ last.send.kind = "text" /\ last.had
  /\ roomId = last.send.room
  /\ Len(messages) > 0
  /\ inputText = <<"h">> /\ ~sending

\* C4: after every change of the log the Date Group list is the projection
\* of the log, also when the log has become empty
C4_GroupsFollowLog ==
  groupedMessages = groupMessagesByDate(messages, DateKey(now))

\* a step that changes nothing of the session and emits nothing
C5_NoEffect ==
  /\ messages' = messages
  /\ inputText' = inputText
  /\ users' = users
  /\ emits' = <<>>

\* C5: a send or a mark-read request of a room that is no longer the active
\* room changes no state of the session and emits nothing when it completes
C5_StaleResultsDiscarded ==
  [][ /\ \A s \in sends :
           (s.room # roomId /\ (SendConfirmed(s) \/ SendFailed(s)))
             => C5_NoEffect
      /\ \A mr \in markReads :
           (/\ mr.room # roomId
            /\ \/ MarkReadFailed(mr)
               \/ \E u \in UpdatedPayloads(mr.room, mr.capUserId) :
                    MarkReadOk(mr, u))
             => C5_NoEffect ]_vars

\* C6: when a send of room A resolves while room B is the active room, the
\* message list of B is what it was before
C6_OtherRoomStoreUnaffected ==
  [][ \A s \in sends :
        (/\ roomId # NULL /\ s.room # roomId
         /\ (SendConfirmed(s) \/ SendFailed(s)))
          => messages' = messages ]_vars

\* a send of a room the user has left resolves while another room, with
\* messages in its list, is the active one
C6_Witness ==
  /\ last.op \in {"sendConfirmed", "sendFailed"}
  /\ roomId # NULL /\ last.send.room # roomId
  /\ step = "chat" /\ messages # <<>>

\* C7: at most one room connection is open, it is the one the ref holds, and
\* none is open after closeRoom
C7_AtMostOneRoomSocket ==
  /\ Cardinality(sockets) <= 1
  /\ \A s \in sockets : s.sid = socketRef
  /\ last.op = "back" => sockets = {}

\* a selectContact has replaced an open connection while another
\* selectContact is still resolving
C7_Witness ==
  /\ last.op = "fetched" /\ last.replaced
  /\ Cardinality(sockets) = 1
  /\ selects # {}

\* C8: the readBy list of a message that stays in the store never loses a user
C8_ReadByMonotone ==
  [][ (/\ Len(messages') = Len(messages)
       /\ \A i \in DOMAIN messages : messages'[i]._id = messages[i]._id)
        => \A i \in DOMAIN messages :
             ReadUsers(messages[i].readBy) \subseteq ReadUsers(messages'[i].readBy)
    ]_vars

\* C9: a newMessage whose id is in the store leaves the store unchanged (one
\* copy stays one copy); one whose id is not in the store is appended last
C9_NewMessageDedup ==
  [][ \A sock \in sockets : \A msg \in Range(serverLog[sock.room]) :
        OnNewMessage(sock, msg) =>
          /\ (\E i \in DOMAIN messages : messages[i]._id = msg._id)
               => messages' = messages
          /\ (\A i \in DOMAIN messages : messages[i]._id # msg._id)
               => messages' = messages \o <<msg>>
          /\ Count(messages, msg._id) = 1 => Count(messages', msg._id) = 1
    ]_vars

\* the pushed copy of a message the user sent and saw confirmed has arrived:
\* one select, one send and this one event make up the run
C9_Witness ==
  /\ last.op = "newMessage" /\ last.dup
  /\ work = 3 /\ sends = {}
  /\ Count(messages, last.id) = 1
  /\ \E i \in DOMAIN messages :
       messages[i]._id = last.id /\ messages[i].senderId = Me

\* C10: groupMessagesByDate does not modify the log it is given, and a second
\* call on the same log at the same date returns the same Date Groups
C10_ProjectPure ==
  [][ ProjectCall =>
        /\ messages' = messages
        /\ work >= 1 => groupedMessages' = groupedMessages ]_vars

\* the second call has returned for a log that is not in time order
C10_Witness ==
  /\ last.op = "project" /\ work = 2
  /\ groupedMessages # <<>>
  /\ \E i, j \in DOMAIN messages :
       /\ i < j /\ messages[i].createdAt > messages[j].createdAt
       /\ DateKey(messages[i].createdAt) = DateKey(messages[j].createdAt)

\* the places <<group, index>> of the Date Group list
C11_Places ==
  { pl \in (DOMAIN groupedMessages) \X (1..Len(messages)) :
      pl[2] \in DOMAIN groupedMessages[pl[1]].messages }

C11_At(pl) == groupedMessages[pl[1]].messages[pl[2]]

\* C11: the groups partition the log by calendar day: every message is at
\* exactly one place, in the group of its day; the groups hold as many
\* messages as the log; a group is in ascending createdAt order, equal times
\* in arrival order; the groups are in ascending date order
C11_PartitionByDay ==
  last.op = "project" =>
    /\ \A i \in DOMAIN messages :
         /\ Cardinality({ pl \in C11_Places : C11_At(pl) = messages[i] }) = 1
         /\ \A pl \in C11_Places :
              C11_At(pl) = messages[i] =>
                groupedMessages[pl[1]].date = DateKey(messages[i].createdAt)
    /\ Cardinality(C11_Places) = Len(messages)
    /\ \A g \in DOMAIN groupedMessages :
         /\ Len(groupedMessages[g].messages) <= Len(messages)
         /\ \A j, k \in DOMAIN groupedMessages[g].messages :
              j < k =>
                LET a == groupedMessages[g].messages[j]
                    b == groupedMessages[g].messages[k]
                IN /\ a.createdAt <= b.createdAt
                   /\ a.createdAt = b.createdAt => a._id.n < b._id.n
    /\ \A g, h \in DOMAIN groupedMessages :
         g < h => groupedMessages[g].date < groupedMessages[h].date

\* a log out of order has been grouped: two of its messages have the same
\* time, and its first message is of a later day than its second
C11_Witness ==
  /\ last.op = "project" /\ Len(messages) = 3
  /\ Len(groupedMessages) = 2
  /\ \E i, j \in DOMAIN messages :
       i < j /\ messages[i].createdAt = messages[j].createdAt
  /\ DateKey(messages[1].createdAt) > DateKey(messages[2].createdAt)

\* C12: a userOnline or userOffline event for an id no contact has leaves the
\* contact list unchanged; one for a contact's id sets that contact's
\* isOnline flag and changes nothing else of the list
C12_PresenceFrame ==
  [][ \A ev \in {"userOnline", "userOffline"}, id \in PresenceIds :
        OnPresence(ev, id) =>
          /\ Len(users') = Len(users)
          /\ \A i \in DOMAIN users :
               /\ users'[i]._id = users[i]._id
               /\ users'[i].unreadCount = users[i].unreadCount
               /\ users[i]._id # id => users'[i] = users[i]
               /\ users[i]._id = id => users'[i].isOnline = (ev = "userOnline")
          /\ (\A i \in DOMAIN users : users[i]._id # id) => users' = users
    ]_vars

\* userOffline for a stranger has been handled with the contact list loaded
C12_Witness ==
  /\ last.op = "presence" /\ last.ev = "userOffline"
  /\ Len(users) = 2
  /\ \A i \in DOMAIN users : users[i]._id # last.id

\* C13: once the component is unmounted, at whatever moment, the start of the
\* presence connection is no longer pending and a presence socket that was
\* made is closed with its heartbeat cancelled; a closed presence socket has
\* had userOffline emitted on it; no heartbeat fires after the unmount
C13_PresenceTeardown ==
  /\ [](~mounted =>
          <>(/\ presence # "token"
             /\ globalSocket.made =>
                  /\ ~globalSocket.open
                  /\ ~globalSocket.hb
                  /\ globalSocket.offline))
  /\ []((globalSocket.made /\ ~globalSocket.open) => globalSocket.offline)
  /\ [][Heartbeat => mounted]_vars

\* the unmount came while the start was waiting for the token; the socket
\* the start then made has been closed
C13_Witness ==
  /\ ~mounted
  /\ last.op = "presenceStarted" /\ last.late
  /\ globalSocket.made /\ ~globalSocket.open /\ ~globalSocket.hb
  /\ globalSocket.offline

\* C14: a mark-read timer scheduled for a room does not issue its request
\* once that room is no longer the open room
C14_NoTimerAfterClose ==
  [][ \A t \in timers :
        (TimerFires(t) /\ t.room # roomId) => markReads' = markReads ]_vars

\* C15: when the mark-read request of the open room succeeds, the selected
\* contact has unreadCount 0 and no other contact is changed
C15_UnreadReset ==
  [][ \A mr \in markReads : \A u \in UpdatedPayloads(mr.room, mr.capUserId) :
        (/\ MarkReadOk(mr, u)
         /\ mr.room = roomId /\ activeUserId = PeerOf(mr.room))
          => \A i \in DOMAIN users :
               IF users[i]._id = activeUserId
               THEN users'[i] = [users[i] EXCEPT !.unreadCount = 0]
               ELSE users'[i] = users[i] ]_vars

\* C16: after a failed room resolution an error is shown, the contact list is
\* on screen and can be used, roomId is null, no room connection is open, the
\* message store is empty and the loading flag is cleared
C16_RoomFailureIsIdle ==
  last.op = "roomFailed" =>
    /\ alert = "Failed to start chat"
    /\ step = "selectUser" /\ Visible("selectUser") /\ users # <<>>
    /\ roomId = NULL
    /\ sockets = {} /\ socketRef = 0
    /\ messages = <<>>
    /\ ~loading

\* a room has been opened by a select that followed a failed one: the
\* failed select had left its contact selected
C16_Witness ==
  /\ last.op = "fetched" /\ last.outcome = "items"
  /\ step = "chat" /\ roomId # NULL
  /\ \E s \in sockets : s.sid = socketRef /\ s.capActive # NULL

\* C17: when the first fetch of a room fails the room still opens: the chat is
\* shown with its connection and an empty log, and an error is shown
C17_FetchFailureVisible ==
  (last.op = "fetched" /\ last.outcome = "error") =>
    /\ step = "chat" /\ roomId # NULL
    /\ \E s \in sockets : s.sid = socketRef /\ s.room = roomId
    /\ messages = <<>>
    /\ alert # NULL

\* C18: handleBack closes the room connection and discards the store: no room
\* connection, roomId null, log and Date Groups empty, input empty, no peer
\* selected, contact list shown; the contacts and the requests and timers in
\* flight are as they were
C18_CloseRoom ==
  [][ HandleBack(TRUE) =>
        /\ sockets' = {} /\ socketRef' = 0
        /\ roomId' = NULL
        /\ messages' = <<>> /\ groupedMessages' = <<>>
        /\ inputText' = <<>>
        /\ activeUserId' = NULL /\ activeUser' = NULL
        /\ step' = "selectUser"
        /\ users' = users
        /\ selects' = selects /\ sends' = sends
        /\ markReads' = markReads /\ timers' = timers ]_vars

\* the room has been closed with a send still in flight
C18_Witness ==
  /\ last.op = "back"
  /\ sends # {} /\ users # <<>>
  /\ sockets = {} /\ messages = <<>>

\* C19: a room whose fetched page is empty opens with an empty Date Group list,
\* the chat shown and no error, whatever was opened, used and closed before
C19_EmptyRoomOpens ==
  (last.op = "fetched" /\ last.outcome = "items" /\ messages = <<>>) =>
    /\ groupedMessages = <<>>
    /\ step = "chat" /\ roomId # NULL
    /\ alert = NULL

\* the empty room of p2 has been opened after the room of p1 was used
C19_Witness ==
  /\ last.op = "fetched" /\ last.outcome = "items" /\ last.peer = "p2"
  /\ messages = <<>> /\ step = "chat"
  /\ \E i \in DOMAIN serverLog["r1"] : serverLog["r1"][i].senderId = Me

\* C20: after a failed GET /users/me the identity is the cached pair if both
\* are cached; otherwise, and without a token, an error is shown and userId
\* and role stay null. Without a userId nothing works: the presence start is
\* not made, no contact list is asked for or loaded, no room is resolved
C20_IdentityLoad ==
  /\ last.op = "profileFail" =>
       IF cache.userId # NULL /\ cache.role # NULL
       THEN userId = cache.userId /\ role = cache.role
       ELSE alert # NULL /\ userId = NULL /\ role = NULL
  /\ last.op = "profileNoToken" =>
       alert # NULL /\ userId = NULL /\ role = NULL
  /\ userId = NULL =>
       /\ role = NULL
       /\ presence = "none" /\ ~globalSocket.made
       /\ usersReq = NULL /\ users = <<>>
       /\ selects = {} /\ roomId = NULL /\ sockets = {} /\ step = "selectUser"

\* the load has failed with half a cache, and a contact was then selected
C20_Witness ==
  /\ ~profileReq /\ token /\ userId = NULL
  /\ cache.userId # NULL /\ cache.role = NULL
  /\ activeUserId # NULL /\ alert = "User ID not loaded yet"

\* C21: a step that issues a persistence request has appended the optimistic
\* entry, with the request's temporary id, as the last entry of the store; a
\* sendMessage broadcast is made only by the step in which a send is confirmed,
\* on the connection the ref holds, carries the message the server persisted
\* and never a temporary id, and after it no entry has the send's temporary
\* id; a failed send broadcasts nothing
C21_SendOrdering ==
  [][ /\ \A s \in sends' \ sends :
           s.saved = <<>> =>
             /\ Len(messages') = Len(messages) + 1
             /\ messages'[Len(messages')]._id = s.tempId
             /\ StartsWithTemp(s.tempId)
      /\ \A i \in DOMAIN emits' :
           emits'[i].ev = "sendMessage" =>
             \E s \in sends :
               /\ SendConfirmed(s)
               /\ s.saved # <<>> /\ emits'[i].arg = s.saved[1]
               /\ emits'[i].arg \in Range(serverLog[s.room])
               /\ ~StartsWithTemp(emits'[i].arg._id)
               /\ ~HasId(messages', s.tempId)
               /\ emits'[i].sid = socketRef
               /\ \E sock \in sockets : sock.sid = socketRef
      /\ \A s \in sends : SendFailed(s) => emits' = <<>> ]_vars

\* a confirmed send has replaced its entry and been broadcast on the open
\* connection of its room
C21_Witness ==
  /\ last.op = "sendConfirmed" /\ last.had
  /\ emits # <<>> /\ emits[1].ev = "sendMessage"
  /\ \E sock \in sockets : sock.sid = emits[1].sid /\ sock.room = last.send.room
  /\ HasId(messages, emits[1].arg._id)

\* C22: a fetch that returned the room's messages and a newMessage whose
\* sender is not the local user each leave a timer pending for that room, and
\* a timer that fires issues the mark-read request of its room; a newMessage
\* sent by the local user schedules nothing and issues nothing; a mark-read
\* request is issued by a timer only
C22_ReadReceiptTriggers ==
  [][ /\ \A sel \in selects :
           MessagesFetched(sel, "items") =>
             \E t \in timers' : t.room = sel.room /\ t.capUserId = userId
      /\ \A sock \in sockets : \A msg \in Range(serverLog[sock.room]) :
           OnNewMessage(sock, msg) =>
             IF msg.senderId # userId
             THEN \E t \in timers' : t.room = sock.room /\ t.capUserId = userId
             ELSE timers' = timers /\ markReads' = markReads
      /\ \A t \in timers :
           TimerFires(t) => \E mr \in markReads' : mr.room = t.room
      /\ markReads' \ markReads # {} => \E t \in timers : TimerFires(t)
    ]_vars

\* with no timer left of the fetch, a newMessage of the peer has scheduled one
\* for the open room
C22_Witness ==
  /\ last.op = "newMessage" /\ ~last.dup
  /\ \E i \in DOMAIN messages :
       messages[i]._id = last.id /\ messages[i].senderId # userId
  /\ Cardinality(timers) = 1
  /\ \A t \in timers : t.room = roomId
  /\ \E m \in Range(messages) : m.senderId = userId

\* the store holds the same ids at the same places after the step, and the
\* entries whose id is not in ids are as they were
C23_SameIds(ids) ==
  /\ Len(messages') = Len(messages)
  /\ \A i \in DOMAIN messages :
       /\ messages'[i]._id = messages[i]._id
       /\ messages[i]._id \notin ids => messages'[i] = messages[i]

\* C23: a mark-read response, a messageUpdated and a messageRead leave the
\* sequence of ids of the store as it was, add nothing for an id the store
\* does not hold and modify only the entries of the ids they carry; a
\* mark-read response emits one messageRead per message of its
\* updatedMessages, in their order, when the ref holds a room connection,
\* and nothing otherwise
C23_UpdatesKeepIds ==
  [][ /\ \A mr \in markReads : \A u \in UpdatedPayloads(mr.room, mr.capUserId) :
           MarkReadOk(mr, u) =>
             /\ C23_SameIds({ u[j]._id : j \in DOMAIN u })
             /\ IF socketRef # 0
                THEN /\ Len(emits') = Len(u)
                     /\ \A j \in DOMAIN u :
                          /\ emits'[j].ev = "messageRead"
                          /\ emits'[j].sid = socketRef
                          /\ emits'[j].arg.messageId = u[j]._id
                ELSE emits' = <<>>
      /\ \A sock \in sockets : \A m \in Snapshots(sock.room) :
           OnMessageUpdated(sock, m) => C23_SameIds({m._id}) /\ emits' = <<>>
      /\ \A sock \in sockets : \A d \in ReadEvents(sock.room) :
           OnMessageRead(sock, d) => C23_SameIds({d.messageId}) /\ emits' = <<>>
    ]_vars

\* a mark-read response that names a message the store does not hold has been
\* applied to a store that holds another, with a room connection open
C23_Witness ==
  /\ last.op = "markReadOk"
  /\ messages # <<>> /\ socketRef # 0
  /\ \E j \in DOMAIN emits :
       /\ emits[j].ev = "messageRead"
       /\ ~HasId(messages, emits[j].arg.messageId)
  /\ \E j \in DOMAIN emits : HasId(messages, emits[j].arg.messageId)

\* C24: a failed mark-read request leaves the store, the Date Groups and the
\* contact list as they were, emits nothing and shows no error; the trigger
\* that follows the failure schedules a timer for the room again, and that
\* timer issues a mark-read request for the same room
C24_MarkReadFailureSilent ==
  [][ /\ \A mr \in markReads :
           MarkReadFailed(mr) =>
             /\ messages' = messages /\ groupedMessages' = groupedMessages
             /\ users' = users
             /\ emits' = <<>> /\ alert' = NULL
             /\ timers' = timers
      /\ last.op = "markReadFailed" =>
           /\ \A sock \in sockets : \A msg \in Range(serverLog[sock.room]) :
                (OnNewMessage(sock, msg) /\ msg.senderId # userId) =>
                  \E t \in timers' : t.room = sock.room
           /\ \A sel \in selects :
                MessagesFetched(sel, "items") =>
                  \E t \in timers' : t.room = sel.room
      /\ (last.op = "newMessage" /\ last.afterFail) =>
           \A t \in timers :
             TimerFires(t) => \E mr \in markReads' : mr.room = t.room
    ]_vars

\* after a failed request for the open room a newMessage of the peer came,
\* its timer has fired and the request for that room is in flight again
C24_Witness ==
  /\ last.op = "timer" /\ last.afterFail
  /\ last.room = roomId
  /\ \E mr \in markReads : mr.room = last.room
  /\ alert = NULL

\* C25: getMessageReadStatus reports isRead exactly for a message of the
\* local user whose readBy names someone other than its sender, and isSent
\* exactly for a message of the local user that has a readBy list and an id
\* without the temporary prefix; an optimistic entry, as sendMessage and
\* handleImagePick make it, is neither sent nor read
C25_ReadStatus ==
  last.op = "status" =>
    LET m == messages[1]
        st == last.status
    IN /\ st.isRead =
            (/\ m.senderId = userId
             /\ HasReadBy(m)
             /\ \E i \in DOMAIN m.readBy : m.readBy[i].userId # m.senderId)
       /\ st.isSent =
            (m.senderId = userId /\ HasReadBy(m) /\ ~StartsWithTemp(m._id))
       /\ (/\ StartsWithTemp(m._id) /\ HasReadBy(m) /\ m.readBy = <<>>)
            => (~st.isSent /\ ~st.isRead)

\* the status of the user's own optimistic image entry has been computed
C25_Witness ==
  /\ last.op = "status"
  /\ messages[1]._id = TempImgId(DayLen) /\ messages[1].senderId = userId
  /\ HasReadBy(messages[1]) /\ messages[1].readBy = <<>>
  /\ ~last.status.isSent /\ ~last.status.isRead

\* the whole minutes between a user's lastSeen and the clock
C26_Age == (now - activeUser.lastSeen) \div MsPerMinute

\* C26: the activity label follows the table in priority order: online gives
\* Online; else no lastSeen gives Offline; else with m whole minutes of age,
\* m < 5 gives Just now, 5 <= m < 60 gives m and "m ago", 60 <= m < 1440
\* gives m div 60 and "h ago", m >= 1440 gives m div 1440 and "d ago"; a
\* label with a number has a number of at least 1
C26_ActivityLabel ==
  last.op = "activity" =>
    LET st == last.status
    IN /\ IF activeUser.isOnline THEN st.text = "Online"
          ELSE IF ~HasLastSeen(activeUser) THEN st.text = "Offline"
          ELSE /\ C26_Age < 5 => st.text = "Just now"
               /\ (5 <= C26_Age /\ C26_Age < 60) =>
                    st.text = "m ago" /\ st.n = C26_Age
               /\ (60 <= C26_Age /\ C26_Age < 1440) =>
                    st.text = "h ago" /\ st.n = C26_Age \div 60
               /\ C26_Age >= 1440 =>
                    st.text = "d ago" /\ st.n = C26_Age \div 1440
       /\ st.text \in {"Online", "Offline", "Just now", "m ago", "h ago", "d ago"}
       /\ st.text \in {"m ago", "h ago", "d ago"} => st.n >= 1

\* the label of a contact last seen exactly sixty minutes ago is 1h ago
C26_Witness ==
  /\ last.op = "activity"
  /\ ~activeUser.isOnline /\ HasLastSeen(activeUser)
  /\ now - activeUser.lastSeen = 60 * MsPerMinute
  /\ last.status.text = "h ago" /\ last.status.n = 1

\* C27: a contact for whom userOnline was received, with no userOffline
\* after it, is shown online once the contact list is loaded, whether the
\* event came before or after the list
C27_PresenceSurvivesLoad ==
  \A i \in DOMAIN users :
    users[i]._id \in onlineUsers => users[i].isOnline

C29_TextSends == { s \in sends : s.kind = "text" }

\* C29: the sending flag is true exactly while a text send awaits its
\* response, and at most one does; a text request is issued only from a state
\* with a non-blank input, an active room and the flag false, for that room
\* and with the trimmed input; when the response of a text send arrives,
\* success or failure, the flag is false
C29_SendingFlag ==
  /\ [](sending = (C29_TextSends # {}))
  /\ [](Cardinality(C29_TextSends) <= 1)
  /\ [][ /\ \A s \in sends' \ sends :
               (s.kind = "text" /\ s.saved = <<>>) =>
                 /\ Trim(inputText) # <<>> /\ roomId # NULL /\ ~sending
                 /\ s.room = roomId /\ s.text = Trim(inputText)
                 /\ sending' /\ inputText' = <<>>
         /\ \A s \in sends :
              (s.kind = "text" /\ (SendConfirmed(s) \/ SendFailed(s)))
                => ~sending' ]_vars

\* a text send awaits its response while the chat shows a new, non-blank
\* input: sendText is refused here by the flag alone
C29_Witness ==
  /\ sending /\ C29_TextSends # {}
  /\ Visible("chat") /\ roomId # NULL
  /\ Trim(inputText) # <<>>

\* the steps on the message store, and those of the presence channel
C30_MessageOps ==
  {"sendText", "sendImage", "sendConfirmed", "sendFailed", "newMessage",
   "messageUpdated", "messageRead"}

C30_PresenceOps == {"presence", "heartbeat"}

\* C30: an optimistic append, a replacement, a rollback and the inbound
\* newMessage, messageUpdated and messageRead leave the contact list as it
\* was; userOnline, userOffline and the heartbeat leave the store, the Date
\* Groups, roomId and the room connection as they were; the contact list
\* changes only by the contact load, by a presence event (isOnline of the
\* contacts alone) or by the unread reset of a mark-read response
\* (unreadCount to 0 alone)
C30_StoreOwnership ==
  [][ /\ last'.op \in C30_MessageOps => users' = users
      /\ last'.op \in C30_PresenceOps =>
           /\ messages' = messages /\ groupedMessages' = groupedMessages
           /\ roomId' = roomId
           /\ sockets' = sockets /\ socketRef' = socketRef
      /\ users' # users =>
           \/ FetchUsersOk /\ users' = LoadedContacts
           \/ /\ last'.op = "presence"
              /\ Len(users') = Len(users)
              /\ \A i \in DOMAIN users :
                   users'[i] = [users[i] EXCEPT !.isOnline = users'[i].isOnline]
           \/ /\ last'.op = "markReadOk"
              /\ Len(users') = Len(users)
              /\ \A i \in DOMAIN users :
                   users'[i] \in {users[i], [users[i] EXCEPT !.unreadCount = 0]}
    ]_vars

\* a presence event for a contact has been handled while a room was open with
\* messages in the store and a send in flight
C30_Witness ==
  /\ last.op = "presence" /\ last.id \in Contacts
  /\ \E i \in DOMAIN users :
       users[i]._id = last.id /\ users[i].isOnline # LoadedContacts[i].isOnline
  /\ messages # <<>> /\ sockets # {} /\ sends # {}

====
